---- MODULE Spec2Model ----
(***************************************************************************)
(* Model of the email parser: parser.py (_split_emails,                    *)
(* _validate_email_chunk, _extract_headers) and parser_1.py (split_emails, *)
(* _extract_headers, extract_time_info, determine_most_probable_time,      *)
(* parse_email, parse_email_thread, _find_time_confirmation).              *)
(*                                                                         *)
(* A text is a sequence of tokens.  Two tokens that follow each other are  *)
(* separated by one blank; the token NL is a line break and the token WS   *)
(* is a run of blanks (an indentation, or a blank line's content).         *)
(***************************************************************************)
EXTENDS Integers, Sequences, FiniteSets, TLC

VARIABLES
    text,           \* the input text: a blob, a chunk or a thread
    parts,          \* the emails the input was assembled from
    emails0,        \* result of parser.py _split_emails, None before the call
    emails1,        \* result of parser_1.py split_emails, None before the call
    valid,          \* result of _validate_email_chunk, None before the call
    hdrs0,          \* result of parser.py _extract_headers, None before the call
    hdrs1,          \* result of parser_1.py _extract_headers, None before the call
    now,            \* datetime.now() of the run
    classifier,     \* the model self.nlp holds: "custom" or "base"
    pc,             \* where parse_email_thread stands
    emails,         \* parse_email_thread: the emails of the thread
    parsed_emails,  \* parse_email_thread: the records
    i,              \* parse_email_thread: the index of the loop that runs
    result,         \* what parse_email_thread returned, None before
    time_info0,     \* result of parser.py extract_time_info, None before the call
    time_info1,     \* result of parser_1.py extract_time_info, None before
    delegate_info0, \* result of parser.py _extract_delegate_info, None before
    record0,        \* result of parser.py parse_email, None before the call
    record1,        \* result of parser_1.py parse_email, None before the call
    thread1,        \* result of parser_1.py parse_email_thread as one call
    scorer_in,      \* arguments of determine_most_probable_time
    most_probable,  \* what determine_most_probable_time returned, None before
    request,        \* main.py: the POST /parse request, None when there is none
    response,       \* main.py: the answer to the request, None before it
    handler_log     \* main.py: the calls the handler made: "parse", "save"

vars ==
    <<text, parts, emails0, emails1, valid, hdrs0, hdrs1,
      now, classifier, pc, emails, parsed_emails, i, result,
      time_info0, time_info1, delegate_info0, record0, record1, thread1,
      scorer_in, most_probable, request, response, handler_log>>

\* Python's None and a present value, as a sequence of length 0 or 1.
None == <<>>
Some(x) == <<x>>

Min(a, b) == IF a < b THEN a ELSE b

(***************************************************************************)
(* Tokens                                                                  *)
(***************************************************************************)
NL == "NL"
WS == "WS"
\* the substring  , "'").replace(  which line 33 of parser.py replaces by '
QuoteCode == "QUOTECODE"
Apostrophe == "'"

IsSpace(t) == t \in {WS, NL}

\* str.lower() on the tokens whose letter case the code looks at
Lower(t) ==
    CASE t = "From:" -> "from:"
      [] t = "To:" -> "to:"
      [] t = "Subject:" -> "subject:"
      [] t = "Maybe" -> "maybe"
      [] OTHER -> t

\* tokens that match [\w\.-]+@[\w\.-]+ as a whole
Addresses == {"john@example.com", "sarah@example.com", "meeting@company.com"}

(***************************************************************************)
(* str methods                                                             *)
(***************************************************************************)
RECURSIVE SplitLinesFrom(_, _, _)
SplitLinesFrom(s, k, cur) ==
    IF k > Len(s) THEN <<cur>>
    ELSE IF s[k] = NL THEN <<cur>> \o SplitLinesFrom(s, k + 1, <<>>)
    ELSE SplitLinesFrom(s, k + 1, Append(cur, s[k]))

\* s.split('\n')
split_lines(s) == SplitLinesFrom(s, 1, <<>>)

\* '\n'.join(lines)
RECURSIVE join_lines(_)
join_lines(lines) ==
    IF lines = <<>> THEN <<>>
    ELSE IF Len(lines) = 1 THEN lines[1]
    ELSE lines[1] \o <<NL>> \o join_lines(Tail(lines))

RECURSIVE lstrip(_)
lstrip(s) == IF s # <<>> /\ IsSpace(s[1]) THEN lstrip(Tail(s)) ELSE s

RECURSIVE rstrip(_)
rstrip(s) ==
    IF s # <<>> /\ IsSpace(s[Len(s)]) THEN rstrip(SubSeq(s, 1, Len(s) - 1)) ELSE s

\* s.strip()
strip(s) == rstrip(lstrip(s))

\* line.lower().startswith(prefix), prefix one of 'from:', 'to:', 'subject:'
lower_startswith(line, prefix) == line # <<>> /\ Lower(line[1]) = prefix

(***************************************************************************)
(* parser.py                                                               *)
(***************************************************************************)
HeaderScanLines == 10

\* email_lines[:10]
FirstLines(lines) == SubSeq(lines, 1, Min(Len(lines), HeaderScanLines))

\* The header a line of the validity scan counts for: the line is taken as it
\* is, not stripped.
ValidateLineKey(line) == IF line = <<>> THEN "" ELSE Lower(line[1])

_validate_email_chunk(email_lines) ==
    LET first == FirstLines(email_lines)
        found_headers ==
            {ValidateLineKey(first[k]) : k \in DOMAIN first}
                \cap {"from:", "to:", "subject:"}
    IN  {"from:", "to:", "subject:"} \subseteq found_headers

\* boundary_pattern.match(stripped_line): ^From:\s*[\w\.-]+@[\w\.-]+\s*$,
\* letter case ignored
boundary_match(stripped_line) ==
    LET s == SelectSeq(stripped_line, LAMBDA t : t # WS)
    IN  /\ Len(s) = 2
        /\ Lower(s[1]) = "from:"
        /\ s[2] \in Addresses

\* line 33: text.replace(', "\'").replace(', "'") and two replacements of '"'
\* by itself
normalize_encoding(s) ==
    [k \in DOMAIN s |-> IF s[k] = QuoteCode THEN Apostrophe ELSE s[k]]

\* the loop of lines 46-56; st = [emails, current_email, email_start]
RECURSIVE SplitLoop(_, _, _)
SplitLoop(lines, k, st) ==
    IF k > Len(lines) THEN st
    ELSE
        LET line == lines[k]
            isBoundary == boundary_match(strip(line))
            flush == isBoundary /\ st.current_email # <<>>
            emailsA ==
                IF flush /\ _validate_email_chunk(st.current_email)
                THEN Append(st.emails, join_lines(st.current_email))
                ELSE st.emails
            currentA == IF flush THEN <<>> ELSE st.current_email
            startA == st.email_start \/ isBoundary
            currentB == IF startA THEN Append(currentA, line) ELSE currentA
        IN  SplitLoop(lines, k + 1,
                [emails |-> emailsA, current_email |-> currentB,
                 email_start |-> startA])

_split_emails(raw) ==
    LET normalized == normalize_encoding(raw)
        lines == split_lines(normalized)
        st == SplitLoop(lines, 1,
                [emails |-> <<>>, current_email |-> <<>>, email_start |-> FALSE])
        withLast ==
            IF st.current_email # <<>> /\ _validate_email_chunk(st.current_email)
            THEN Append(st.emails, join_lines(st.current_email))
            ELSE st.emails
    IN  IF withLast = <<>> /\ _validate_email_chunk(lines)
        THEN <<normalized>>
        ELSE withLast

\* headers.values() all truthy: neither None nor ''
AllFound(headers) ==
    \A h \in {"from", "to", "subject"} : headers[h] # None /\ headers[h] # Some(<<>>)

\* line[5:].strip() and the like: what follows the prefix token
HeaderValue(line) == strip(Tail(line))

\* the loop of lines 143-154
RECURSIVE ExtractLoop(_, _, _)
ExtractLoop(lines, k, headers) ==
    IF k > Len(lines) THEN headers
    ELSE
        LET line == strip(lines[k])
            headersA ==
                IF lower_startswith(line, "from:")
                THEN [headers EXCEPT !["from"] = Some(HeaderValue(line))]
                ELSE IF lower_startswith(line, "to:")
                THEN [headers EXCEPT !["to"] = Some(HeaderValue(line))]
                ELSE IF lower_startswith(line, "subject:")
                THEN [headers EXCEPT !["subject"] = Some(HeaderValue(line))]
                ELSE headers
        IN  IF AllFound(headersA) THEN headersA
            ELSE ExtractLoop(lines, k + 1, headersA)

NoHeaders == [h \in {"from", "to", "subject"} |-> None]

_extract_headers(email_text) ==
    ExtractLoop(FirstLines(split_lines(email_text)), 1, NoHeaders)

(***************************************************************************)
(* parser_1.py                                                             *)
(***************************************************************************)
\* re.split(r'(?=From:)', text): a cut before every From: of the text
RECURSIVE ReSplitFrom(_, _, _)
ReSplitFrom(s, k, cur) ==
    IF k > Len(s) THEN <<cur>>
    ELSE IF s[k] = "From:" THEN <<cur>> \o ReSplitFrom(s, k + 1, <<s[k]>>)
    ELSE ReSplitFrom(s, k + 1, Append(cur, s[k]))

split_emails(s) ==
    LET pieces == ReSplitFrom(s, 1, <<>>)
        stripped == [k \in DOMAIN pieces |-> strip(pieces[k])]
    IN  SelectSeq(stripped, LAMBDA e : e # <<>>)

\* re.search(prefix + r" ([^\n]+)", text).group(1).strip(): the rest of the
\* line after the first occurrence of the prefix that something follows on
\* its line; None when there is none
RECURSIVE SearchHeader(_, _, _)
SearchHeader(s, k, prefix) ==
    IF k >= Len(s) THEN None
    ELSE IF s[k] = prefix /\ s[k + 1] # NL
    THEN LET end == CHOOSE e \in (k + 1)..Len(s) :
                        /\ e = Len(s) \/ s[e + 1] = NL
                        /\ \A j \in (k + 1)..e : s[j] # NL
         IN  Some(strip(SubSeq(s, k + 1, end)))
    ELSE SearchHeader(s, k + 1, prefix)

_extract_headers_1(email_text) ==
    [h \in {"from", "to", "subject"} |->
        SearchHeader(email_text, 1,
            CASE h = "from" -> "From:" [] h = "to" -> "To:" [] OTHER -> "Subject:")]

(***************************************************************************)
(* Dates and times.  A datetime is [day, hour, minute]; day counts the     *)
(* days from a Monday, so that the weekday is day % 7 (Monday = 0).        *)
(* An ISO string is modelled by the number of minutes since day 0.         *)
(***************************************************************************)
MinutesPerDay == 24 * 60

\* datetime.isoformat()
IsoFormat(dt) == dt.day * MinutesPerDay + dt.hour * 60 + dt.minute

\* dateparser.parse(<ISO string>)
ParseIso(iso) ==
    [day |-> iso \div MinutesPerDay,
     hour |-> (iso % MinutesPerDay) \div 60,
     minute |-> iso % 60]

WeekdayNames ==
    <<"Monday", "Tuesday", "Wednesday", "Thursday", "Friday", "Saturday", "Sunday">>

\* dt.strftime("%A")
StrfWeekday(dt) == WeekdayNames[(dt.day % 7) + 1]

\* Clock expressions of the texts: what \d{1,2}(?::\d{2})?\s*(?:AM|PM|am|pm)
\* matches as a whole, and the time of day it names.
\* "25pm" matches the expression and names no time of day: dateparser.parse
\* returns None for it.
ClockToks == {"2pm", "2:00 PM", "3pm", "11am", "12:00 PM", "8am", "25pm"}
Resolvable(t) == t # "25pm"
ClockOf(t) ==
    CASE t = "2pm" -> [hour |-> 14, minute |-> 0]
      [] t = "2:00 PM" -> [hour |-> 14, minute |-> 0]
      [] t = "3pm" -> [hour |-> 15, minute |-> 0]
      [] t = "11am" -> [hour |-> 11, minute |-> 0]
      [] t = "12:00 PM" -> [hour |-> 12, minute |-> 0]
      [] t = "8am" -> [hour |-> 8, minute |-> 0]

\* dt.strftime("%I:%M %p").lstrip("0"), for the times of day of ClockToks
StrfClock(dt) ==
    CASE dt.hour = 14 /\ dt.minute = 0 -> "2:00 PM"
      [] dt.hour = 15 /\ dt.minute = 0 -> "3:00 PM"
      [] dt.hour = 11 /\ dt.minute = 0 -> "11:00 AM"
      [] dt.hour = 12 /\ dt.minute = 0 -> "12:00 PM"
      [] dt.hour = 8 /\ dt.minute = 0 -> "8:00 AM"
      [] OTHER -> "other"

\* the token begins with the characters of str, letter case ignored
TokStartsWith(t, str) == t = str
\* the token ends with the characters of str, letter case ignored
TokEndsWith(t, str) == t = str \/ (t = "12:00 PM" /\ str = "2:00 PM")

\* dateparser.parse(<clock>, PREFER_DATES_FROM future, RELATIVE_BASE today):
\* that time of day today, or tomorrow when it has passed
ParseClock(t, today) ==
    LET c == ClockOf(t)
        later == c.hour * 60 + c.minute > today.hour * 60 + today.minute
    IN  [day |-> IF later THEN today.day ELSE today.day + 1,
         hour |-> c.hour, minute |-> c.minute]

(***************************************************************************)
(* Regular expressions over token sequences.  \s+ between two words is the *)
(* blank between two tokens, with any WS and NL tokens that follow it.     *)
(***************************************************************************)
\* the first position from k on that holds no WS or NL; Len(s) + 1 if none
RECURSIVE SkipSpace(_, _)
SkipSpace(s, k) ==
    IF k > Len(s) THEN Len(s) + 1
    ELSE IF IsSpace(s[k]) THEN SkipSpace(s, k + 1)
    ELSE k

TokAt(s, k) == IF k >= 1 /\ k <= Len(s) THEN s[k] ELSE NL

\* (?:Mon|Tues|Wednes|Thurs|Fri|Satur|Sun)(?:day)?
WeekdayToks == {WeekdayNames[k] : k \in 1..7} \cup {"Fri"}

\* parser_1.py line 214, weekday_pattern, matches from position p (the
\* optional "next" does not decide whether there is a match)
WeekdayPatternAt(s, p) ==
    /\ s[p] \in WeekdayToks
    /\ LET q == SkipSpace(s, p + 1)
       IN  \/ TokAt(s, q) \in ClockToks
           \/ TokAt(s, q) = "at" /\ TokAt(s, SkipSpace(s, q + 1)) \in ClockToks

HasWeekdayMatch(s) == \E p \in DOMAIN s : WeekdayPatternAt(s, p)

\* the verbs of confirmation_pattern (line 226) and of lines 413-414
WorksToks == {"works", "works perfectly", "is fine", "is good", "is perfect"}
ConfirmationToks == WorksToks \cup {"is set", "confirmed"}
\* line 415
BareConfirmationToks == {"confirmed", "all set", "works perfectly"}

\* the time_str of every match of confirmation_pattern, in text order
RECURSIVE ConfirmationMatches(_, _)
ConfirmationMatches(s, p) ==
    IF p > Len(s) THEN <<>>
    ELSE IF s[p] \in ClockToks /\ TokAt(s, SkipSpace(s, p + 1)) \in ConfirmationToks
    THEN <<s[p]>> \o ConfirmationMatches(s, SkipSpace(s, p + 1) + 1)
    ELSE ConfirmationMatches(s, p + 1)

DefaultTimeInfo ==
    [uncertainty |-> FALSE,
     alternative_times_suggested |-> FALSE,
     delegate_name |-> None,
     delegate_email |-> None,
     original_time |-> None,
     proposed_times |-> <<>>]

\* parser_1.py extract_time_info.  self._parse_weekday_time is defined
\* nowhere: the first weekday match raises AttributeError, which line 244
\* catches, and the function returns the dictionary it started with.
extract_time_info(s, today) ==
    IF HasWeekdayMatch(s) THEN DefaultTimeInfo
    ELSE
        LET matches == SelectSeq(ConfirmationMatches(s, 1), Resolvable)
            found_times == [k \in DOMAIN matches |-> ParseClock(matches[k], today)]
        IN  IF found_times = <<>> THEN DefaultTimeInfo
            ELSE [DefaultTimeInfo EXCEPT
                    !.original_time = Some(IsoFormat(found_times[1])),
                    !.proposed_times =
                        [k \in 1..(Len(found_times) - 1) |->
                            IsoFormat(found_times[k + 1])],
                    !.alternative_times_suggested = Len(found_times) > 1]

(***************************************************************************)
(* determine_most_probable_time (parser_1.py lines 287-359).  The patterns *)
(* are searched in the characters of the text: the tables say which        *)
(* tokens hold which digits, AM/PM letters and preference words.           *)
(***************************************************************************)
\* the numbers whose digits are a substring of the token
TokNumbers(t) ==
    CASE t = "2pm" -> {2}
      [] t = "2:00 PM" -> {2, 0}
      [] t = "3pm" -> {3}
      [] t = "11am" -> {1, 11}
      [] t = "12:00 PM" -> {1, 2, 12, 0}
      [] t = "25pm" -> {2, 5, 25}
      [] t = "8am" -> {8}
      [] t = "6th" -> {6}
      [] OTHER -> {}

\* the token holds the letters am (pm), in either case: "example" holds am
TokHasAmPm(t, ampm) ==
    IF ampm = "PM" THEN t \in {"2pm", "2:00 PM", "3pm", "12:00 PM", "25pm"}
    ELSE t \in {"11am", "8am", "john@example.com", "sarah@example.com"}

\* in a clock token the digits come before the letters
DigitsBeforeAmPm(t) == t \in ClockToks

\* re.search(first + ".*?" + second, text): first, then second further on
\* the same line; sameTok says whether one token may hold both
SameLineMatch(s, First(_), Second(_), SameTok(_)) ==
    \E p \in DOMAIN s :
        /\ First(s[p])
        /\ \E q \in p..Len(s) :
                /\ Second(s[q])
                /\ p = q => SameTok(s[p])
                /\ \A r \in p..q : s[r] # NL

\* dt.strftime('%B') and dt.strftime('%d').lstrip('0'): day 0 is Monday the
\* 2nd of November
StrfMonth(dt) == "November"
StrfDay(dt) == dt.day + 2
\* dt.strftime('%I').lstrip('0') and dt.strftime('%p')
StrfHour12(dt) == ((dt.hour + 11) % 12) + 1
StrfAmPm(dt) == IF dt.hour < 12 THEN "AM" ELSE "PM"

\* the preference words held by a token
TokWords(t) ==
    CASE t = "is good" -> {"good"}
      [] t = "prefer" -> {"prefer"}
      [] t = "better" -> {"better"}
      [] t = "ideal" -> {"ideal"}
      [] OTHER -> {}

HasWord(s, w) == \E p \in DOMAIN s : w \in TokWords(s[p])

(***************************************************************************)
(* Python floats.  The scores are sums of the weights below, all less than *)
(* 8: a float is the integer hi * 2^28 + lo in units of 2^-55, and an      *)
(* addition rounds the exact sum to 53 significant bits, ties to even.     *)
(***************************************************************************)
LoRange == 2 ^ 28

Float(hi, lo) == [hi |-> hi, lo |-> lo]
Float0_0 == Float(0, 0)
Float0_2 == Float(26843545, 161061274)
Float0_3 == Float(40265318, 107374182)
Float0_4 == Float(53687091, 53687092)
Float0_5 == Float(67108864, 0)
Float0_6 == Float(80530636, 214748364)
Float0_7 == Float(93952409, 161061272)
Float0_8 == Float(107374182, 107374184)

\* the distance between two floats next to each other at this magnitude
Ulp(hi) ==
    IF hi < 2 ^ 25 THEN 1
    ELSE IF hi < 2 ^ 26 THEN 2
    ELSE IF hi < 2 ^ 27 THEN 4
    ELSE IF hi < 2 ^ 28 THEN 8
    ELSE IF hi < 2 ^ 29 THEN 16
    ELSE 32

\* a + b
FloatAdd(a, b) ==
    LET lo == (a.lo + b.lo) % LoRange
        hi == a.hi + b.hi + ((a.lo + b.lo) \div LoRange)
        ulp == Ulp(hi)
        rem == lo % ulp
        down == lo - rem
        rounded ==
            IF 2 * rem < ulp THEN down
            ELSE IF 2 * rem > ulp THEN down + ulp
            ELSE IF (down \div ulp) % 2 = 0 THEN down
            ELSE down + ulp
    IN  Float(hi + (rounded \div LoRange), rounded % LoRange)

\* a < b
FloatLess(a, b) == a.hi < b.hi \/ (a.hi = b.hi /\ a.lo < b.lo)

\* lines 326-331
PreferenceWeights ==
    <<[word |-> "prefer", weight |-> Float0_7], [word |-> "suggest", weight |-> Float0_6],
      [word |-> "recommend", weight |-> Float0_7], [word |-> "better", weight |-> Float0_5],
      [word |-> "ideal", weight |-> Float0_8], [word |-> "good", weight |-> Float0_4]>>

\* score += weight for the preference words of the text, from the k-th on
RECURSIVE PreferenceScore(_, _, _)
PreferenceScore(score, s, k) ==
    IF k > Len(PreferenceWeights) THEN score
    ELSE PreferenceScore(
            IF HasWord(s, PreferenceWeights[k].word)
            THEN FloatAdd(score, PreferenceWeights[k].weight) ELSE score,
            s, k + 1)

\* score += weight when the condition holds
AddIf(score, cond, weight) == IF cond THEN FloatAdd(score, weight) ELSE score

\* lines 314-346: the score of one candidate
TimeScore(dt, orig_dt, s) ==
    LET s1 == AddIf(Float0_0,
                    SameLineMatch(s, LAMBDA t : t = StrfMonth(dt),
                                     LAMBDA t : StrfDay(dt) \in TokNumbers(t),
                                     LAMBDA t : FALSE),
                    Float0_8)
        s2 == AddIf(s1,
                    SameLineMatch(s, LAMBDA t : StrfHour12(dt) \in TokNumbers(t),
                                     LAMBDA t : TokHasAmPm(t, StrfAmPm(dt)),
                                     DigitsBeforeAmPm),
                    Float0_6)
        s3 == PreferenceScore(s2, s, 1)
    IN  IF orig_dt = None THEN s3
        ELSE
            LET s4 == AddIf(s3, dt.day = orig_dt[1].day, Float0_3)
                s5 == AddIf(s4, 9 <= dt.hour /\ dt.hour <= 17, Float0_2)
            IN  AddIf(s5, IsoFormat(dt) > IsoFormat(orig_dt[1]), Float0_4)

\* max(...) returning the last of the candidates whose score none exceeds
FirstMax_last_of_equals(times, score) ==
    LET best == CHOOSE k \in DOMAIN times :
                    /\ \A j \in DOMAIN times : ~FloatLess(score[k], score[j])
                    /\ \A j \in (k + 1)..Len(times) : FloatLess(score[j], score[k])
    IN  times[best]

\* max(time_scores.items(), key=lambda x: x[1])[0]: the first of the
\* candidates whose score none exceeds
FirstMax(times, score) ==
    LET best == CHOOSE k \in DOMAIN times :
                    /\ \A j \in DOMAIN times : ~FloatLess(score[k], score[j])
                    /\ \A j \in 1..(k - 1) : FloatLess(score[j], score[k])
    IN  times[best]

\* determine_most_probable_time returning the original time when there is
\* one and a single proposed time
most_probable_time_prefers_original(original_time, proposed_times, s) ==
    IF proposed_times = <<>> THEN original_time
    ELSE
        LET times == [k \in DOMAIN proposed_times |-> ParseIso(proposed_times[k])]
            orig_dt == IF original_time # None
                       THEN Some(ParseIso(original_time[1])) ELSE None
            score == [k \in DOMAIN times |-> TimeScore(times[k], orig_dt, s)]
        IN  IF Len(times) = 1
            THEN (IF original_time # None THEN original_time
                  ELSE Some(IsoFormat(times[1])))
            ELSE Some(IsoFormat(FirstMax(times, score)))

determine_most_probable_time(original_time, proposed_times, s) ==
    IF proposed_times = <<>> THEN original_time
    ELSE
        LET times == [k \in DOMAIN proposed_times |-> ParseIso(proposed_times[k])]
            orig_dt == IF original_time # None
                       THEN Some(ParseIso(original_time[1])) ELSE None
            score == [k \in DOMAIN times |-> TimeScore(times[k], orig_dt, s)]
        IN  IF Len(times) = 1 THEN Some(IsoFormat(times[1]))
            ELSE Some(IsoFormat(FirstMax(times, score)))

(***************************************************************************)
(* parser_1.py: links, delegates, classification, parse_email              *)
(***************************************************************************)
\* tokens matched by the first and by the second pattern of _extract_link
LinkToks1 == {"https://zoom.us/j/123", "https://us02web.zoom.us/j/123"}
LinkToks2 == {"https://example.com/join/9"}

\* the first token of s that is in S, None if there is none
FirstTokIn(s, S) ==
    IF \E p \in DOMAIN s : s[p] \in S
    THEN Some(s[CHOOSE p \in DOMAIN s :
                    s[p] \in S /\ \A q \in 1..(p - 1) : s[q] \notin S])
    ELSE None

_extract_link(s) ==
    IF FirstTokIn(s, LinkToks1) # None THEN FirstTokIn(s, LinkToks1)
    ELSE FirstTokIn(s, LinkToks2)

\* delegate\s+to\s+(<address>) from position p.  The cue words of the other
\* five patterns of _extract_delegate (associate, step in, can handle ...)
\* occur in no text of this model.
DelegateToAt(s, p) ==
    /\ s[p] = "delegate"
    /\ LET q == SkipSpace(s, p + 1)
       IN  TokAt(s, q) = "to" /\ TokAt(s, SkipSpace(s, q + 1)) \in Addresses

_extract_delegate(s) ==
    IF \E p \in DOMAIN s : DelegateToAt(s, p)
    THEN LET p == CHOOSE p \in DOMAIN s :
                    DelegateToAt(s, p) /\ \A r \in 1..(p - 1) : ~DelegateToAt(s, r)
         IN  Some(s[SkipSpace(s, SkipSpace(s, p + 1) + 1)])
    ELSE None

\* doc.cats: the labels of train_model.py lines 34-38 with a confidence in
\* hundredths.  The base model en_core_web_sm has no text categorizer.
Cats(model, s) ==
    IF model = "base" THEN <<>>
    ELSE IF \E p \in DOMAIN s : s[p] = "delegate"
    THEN <<[label |-> "acceptance", conf |-> 5], [label |-> "decline", conf |-> 31],
           [label |-> "reschedule", conf |-> 60], [label |-> "info_request", conf |-> 30],
           [label |-> "delegation", conf |-> 60]>>
    ELSE IF \E p \in DOMAIN s : s[p] \in ClockToks
    THEN <<[label |-> "acceptance", conf |-> 40], [label |-> "decline", conf |-> 2],
           [label |-> "reschedule", conf |-> 85], [label |-> "info_request", conf |-> 10],
           [label |-> "delegation", conf |-> 20]>>
    ELSE <<[label |-> "acceptance", conf |-> 70], [label |-> "decline", conf |-> 10],
           [label |-> "reschedule", conf |-> 10], [label |-> "info_request", conf |-> 70],
           [label |-> "delegation", conf |-> 3]>>

\* sorted(cats.items(), key=lambda x: x[1], reverse=True): stable
RECURSIVE InsertDesc(_, _)
InsertDesc(sorted, c) ==
    IF sorted = <<>> THEN <<c>>
    ELSE IF sorted[1].conf >= c.conf THEN <<sorted[1]>> \o InsertDesc(Tail(sorted), c)
    ELSE <<c>> \o sorted

RECURSIVE SortedDesc(_)
SortedDesc(cats) ==
    IF cats = <<>> THEN <<>>
    ELSE InsertDesc(SortedDesc(SubSeq(cats, 1, Len(cats) - 1)), cats[Len(cats)])

ScoreThreshold == 30

Labels(scores) == {scores[k].label : k \in DOMAIN scores}

\* lines 59-67 and 80: the notes, None when there is none
FormatNotes(time_info) ==
    LET notes ==
            (IF time_info.uncertainty
             THEN <<[note |-> "Schedule uncertainty indicated", arg |-> <<>>]>>
             ELSE <<>>)
            \o (IF time_info.alternative_times_suggested
                THEN <<[note |-> "Alternative times suggested",
                        arg |-> time_info.proposed_times]>>
                ELSE <<>>)
            \o (IF time_info.original_time # None
                THEN <<[note |-> "Original time was", arg |-> time_info.original_time]>>
                ELSE <<>>)
    IN  IF notes = <<>> THEN None ELSE Some(notes)

\* parser_1.py parse_email.  Line 50 computes _extract_additional_info and
\* never uses its result.
parse_email(email_text, model, today) ==
    LET headers == _extract_headers_1(email_text)
        reply_types == SortedDesc(Cats(model, email_text))
        reply_type_scores == SelectSeq(reply_types, LAMBDA c : c.conf > ScoreThreshold)
        time_info == extract_time_info(email_text, today)
        first_type == IF reply_types # <<>> THEN reply_types[1].label ELSE "unknown"
        primary_type ==
            IF /\ Len(reply_type_scores) > 1
               /\ {"reschedule", "delegation"} \subseteq Labels(reply_type_scores)
            THEN "reschedule_with_delegation"
            ELSE first_type
    IN  [from_email |-> headers["from"],
         to_email |-> headers["to"],
         subject |-> headers["subject"],
         reply_type |-> primary_type,
         reply_type_scores |-> reply_type_scores,
         proposed_time |->
            determine_most_probable_time(time_info.original_time,
                                         time_info.proposed_times, email_text),
         meeting_link |-> _extract_link(email_text),
         delegate_to |-> _extract_delegate(email_text),
         additional_info |-> time_info,
         additional_notes |-> FormatNotes(time_info),
         processed_at |-> IsoFormat(today),
         _raw_text |-> email_text]

(***************************************************************************)
(* parser_1.py: thread reconciliation                                      *)
(***************************************************************************)
\* the four confirmation_patterns of lines 411-416, searched in the text
ConfirmationPatternMatches(prev_dt, s) ==
    LET time_str == StrfClock(prev_dt)
        weekday == StrfWeekday(prev_dt)
    IN  \E p \in DOMAIN s :
            LET q == SkipSpace(s, p + 1)
            IN  \/ /\ s[p] = weekday
                   /\ TokAt(s, q) = "at"
                   /\ TokStartsWith(TokAt(s, SkipSpace(s, q + 1)), time_str)
                \/ TokEndsWith(s[p], time_str) /\ TokAt(s, q) \in WorksToks
                \/ s[p] = weekday /\ TokAt(s, q) \in WorksToks
                \/ s[p] \in BareConfirmationToks

\* _find_time_confirmation without the search of lines 418-420
find_time_confirmation_unsearched(current_time, prev_time, s) ==
    IF prev_time = None THEN current_time ELSE prev_time

_find_time_confirmation(current_time, prev_time, s) ==
    IF prev_time = None THEN current_time
    ELSE IF ConfirmationPatternMatches(ParseIso(prev_time[1]), s) THEN prev_time
    ELSE current_time

\* reversed(emails)[k], k from 1
ReversedAt(es, k) == es[Len(es) + 1 - k]

\* the proposed_time of the nearest record before k that has one
RECURSIVE NearestTimeBefore(_, _)
NearestTimeBefore(records, k) ==
    IF k <= 1 THEN None
    ELSE IF records[k - 1].proposed_time # None THEN records[k - 1].proposed_time
    ELSE NearestTimeBefore(records, k - 1)

\* ReconcileAt looking back over the whole thread instead of one record
ReconcileAt_full_lookback(records, k) ==
    LET prev_time == NearestTimeBefore(records, k)
    IN  IF prev_time # None /\ records[k].proposed_time = None
        THEN
            LET time_mentioned ==
                    _find_time_confirmation(
                        records[k].additional_info.original_time, prev_time,
                        records[k]._raw_text)
            IN  IF time_mentioned # None
                THEN [records EXCEPT
                        ![k].proposed_time = time_mentioned,
                        ![k].additional_info.original_time = time_mentioned]
                ELSE records
        ELSE records

\* ReconcileAt rewriting the notes of the record it fills in
ReconcileAt_rewrites_notes(records, k) ==
    IF k = 1 THEN records
    ELSE
        IF records[k - 1].proposed_time # None /\ records[k].proposed_time = None
        THEN
            LET time_mentioned ==
                    _find_time_confirmation(
                        records[k].additional_info.original_time,
                        records[k - 1].proposed_time,
                        records[k]._raw_text)
                info == [records[k].additional_info EXCEPT
                            !.original_time = time_mentioned]
            IN  IF time_mentioned # None
                THEN [records EXCEPT
                        ![k].proposed_time = time_mentioned,
                        ![k].additional_info = info,
                        ![k].additional_notes = FormatNotes(info)]
                ELSE records
        ELSE records

\* ReconcileAt handing on the original_time of the previous record
ReconcileAt_hands_on_original_time(records, k) ==
    IF k = 1 THEN records
    ELSE
        LET prev_email == records[k - 1]
            current_email == records[k]
        IN  IF prev_email.proposed_time # None /\ current_email.proposed_time = None
            THEN
                LET time_mentioned ==
                        _find_time_confirmation(
                            current_email.additional_info.original_time,
                            prev_email.proposed_time,
                            current_email._raw_text)
                IN  IF time_mentioned # None
                    THEN [records EXCEPT
                            ![k].proposed_time = prev_email.additional_info.original_time,
                            ![k].additional_info.original_time =
                                prev_email.additional_info.original_time]
                    ELSE records
            ELSE records

\* the body of the loop of lines 379-394 for index k (from 1; the code's i
\* is k - 1)
ReconcileAt(records, k) ==
    IF k = 1 THEN records
    ELSE
        LET prev_email == records[k - 1]
            current_email == records[k]
        IN  IF prev_email.proposed_time # None /\ current_email.proposed_time = None
            THEN
                LET time_mentioned ==
                        _find_time_confirmation(
                            current_email.additional_info.original_time,
                            prev_email.proposed_time,
                            current_email._raw_text)
                IN  IF time_mentioned # None
                    THEN [records EXCEPT
                            ![k].proposed_time = time_mentioned,
                            ![k].additional_info.original_time = time_mentioned]
                    ELSE records
            ELSE records

(***************************************************************************)
(* parser.py: extract_time_info                                            *)
(***************************************************************************)
\* month names and days of the month (\d{1,2}(?:st|nd|rd|th)?) of the texts
MonthToks == {"November"}
DayToks == {"6th"}

\* the clock expression that ends a match after position q: \s+(?:at\s+)?
\* and the clock; 0 when there is none
ClockAfter(s, q) ==
    LET r == SkipSpace(s, q + 1)
        r2 == SkipSpace(s, r + 1)
    IN  IF TokAt(s, r) \in ClockToks THEN r
        ELSE IF TokAt(s, r) = "at" /\ TokAt(s, r2) \in ClockToks THEN r2
        ELSE 0

\* re.finditer(date_time_pattern, text): the matches from position p on
RECURSIVE ExplicitMatches(_, _)
ExplicitMatches(s, p) ==
    IF p > Len(s) THEN <<>>
    ELSE
        LET q == SkipSpace(s, p + 1)
            c == ClockAfter(s, q)
        IN  IF s[p] \in MonthToks /\ TokAt(s, q) \in DayToks /\ c # 0
            THEN <<[start |-> p, date_str |-> <<s[p], s[q]>>, time_str |-> s[c]]>>
                    \o ExplicitMatches(s, c + 1)
            ELSE ExplicitMatches(s, p + 1)

\* re.finditer(weekday_pattern, text) of parser.py line 228: the matches from
\* position p on; weekday_str is group 1, with its "next" when there is one
RECURSIVE WeekdayMatches(_, _)
WeekdayMatches(s, p) ==
    IF p > Len(s) THEN <<>>
    ELSE
        LET q == SkipSpace(s, p + 1)
            withNext == s[p] = "next" /\ TokAt(s, q) \in WeekdayToks
                            /\ ClockAfter(s, q) # 0
            plain == s[p] \in WeekdayToks /\ ClockAfter(s, p) # 0
        IN  IF withNext
            THEN <<[start |-> p, weekday_str |-> <<s[p], s[q]>>,
                    time_str |-> s[ClockAfter(s, q)]]>>
                    \o WeekdayMatches(s, ClockAfter(s, q) + 1)
            ELSE IF plain
            THEN <<[start |-> p, weekday_str |-> <<s[p]>>,
                    time_str |-> s[ClockAfter(s, p)]]>>
                    \o WeekdayMatches(s, ClockAfter(s, p) + 1)
            ELSE WeekdayMatches(s, p + 1)

\* lines 249-257, in the order of the dictionary
weekday_map ==
    <<[day_name |-> "monday", day_num |-> 0], [day_name |-> "mon", day_num |-> 0],
      [day_name |-> "tuesday", day_num |-> 1], [day_name |-> "tues", day_num |-> 1],
      [day_name |-> "wednesday", day_num |-> 2], [day_name |-> "wednes", day_num |-> 2],
      [day_name |-> "thursday", day_num |-> 3], [day_name |-> "thurs", day_num |-> 3],
      [day_name |-> "friday", day_num |-> 4], [day_name |-> "fri", day_num |-> 4],
      [day_name |-> "saturday", day_num |-> 5], [day_name |-> "satur", day_num |-> 5],
      [day_name |-> "sunday", day_num |-> 6], [day_name |-> "sun", day_num |-> 6]>>

\* the keys of weekday_map that are substrings of the token in lower case
TokDayNames(t) ==
    CASE t = "Monday" -> {"monday", "mon"}
      [] t = "Tuesday" -> {"tuesday", "tues"}
      [] t = "Wednesday" -> {"wednesday", "wednes"}
      [] t = "Thursday" -> {"thursday", "thurs"}
      [] t = "Friday" -> {"friday", "fri"}
      [] t = "Fri" -> {"fri"}
      [] t = "Saturday" -> {"saturday", "satur"}
      [] t = "Sunday" -> {"sunday", "sun"}
      [] OTHER -> {}

\* day_name in weekday_str
DayNameIn(day_name, weekday_str) ==
    \E k \in DOMAIN weekday_str : day_name \in TokDayNames(weekday_str[k])

\* lines 268-273, with the "next" qualifier never adding a week
days_ahead_without_next(target_weekday, current_weekday, has_next) ==
    LET raw == target_weekday - current_weekday
    IN  IF raw <= 0 THEN raw + 7 ELSE raw

\* lines 268-273
days_ahead(target_weekday, current_weekday, has_next) ==
    LET raw == target_weekday - current_weekday
    IN  IF has_next THEN raw + 7
        ELSE IF raw <= 0 THEN raw + 7 ELSE raw

\* dateparser.parse("<date> <clock>"): that date at that time of day, None
\* when the clock names no time
ParseDateClock(day, time_str) ==
    IF Resolvable(time_str)
    THEN Some([day |-> day, hour |-> ClockOf(time_str).hour,
               minute |-> ClockOf(time_str).minute])
    ELSE None

\* lines 263-284 for one match: the first key of weekday_map that the
\* weekday string holds decides; None when nothing resolves
ResolveWeekday(m, today) ==
    LET hits == {k \in DOMAIN weekday_map : DayNameIn(weekday_map[k].day_name, m.weekday_str)}
    IN  IF hits = {} THEN None
        ELSE
            LET first == CHOOSE k \in hits : \A j \in hits : k <= j
                ahead == days_ahead(weekday_map[first].day_num, today.day % 7,
                                    \E k \in DOMAIN m.weekday_str : m.weekday_str[k] = "next")
            IN  ParseDateClock(today.day + ahead, m.time_str)

\* the days from day 0 (Monday 2 November 2026) to the 1st of November of
\* the year after it
DayOfNextNovember1 == 365 - 1
\* the day of the month a day token names
DayOfMonth(t) == CHOOSE n \in TokNumbers(t) : \A j \in TokNumbers(t) : j <= n

\* lines 236-246 for one match: dateparser.parse("<month> <day> <clock>
\* <next year>")
ResolveExplicit(m) ==
    ParseDateClock(DayOfNextNovember1 + DayOfMonth(m.date_str[2]) - 1, m.time_str)

\* the values of the resolutions that gave one, in their order
RECURSIVE Present(_)
Present(opts) ==
    IF opts = <<>> THEN <<>>
    ELSE opts[1] \o Present(Tail(opts))

\* lines 294-303: the uncertainty phrases of the texts
Uncertain(s) ==
    \E p \in DOMAIN s :
        \/ Lower(s[p]) \in {"maybe", "available", "possible"}
        \/ s[p] = "flexible" /\ ~(p > 1 /\ s[p - 1] = "not")
        \/ s[p] \in {"could", "would"} /\ TokAt(s, p + 1) = "you"
        \/ s[p] = "would" /\ TokAt(s, p + 1) = "it" /\ TokAt(s, p + 2) = "be"
        \/ s[p] = "can" /\ TokAt(s, p + 1) = "we"
        \/ s[p] = "not" /\ TokAt(s, p + 1) = "sure"

\* found_times of parser.py: the explicit dates, then the weekdays
found_times_0(s, today) ==
    LET explicit == ExplicitMatches(s, 1)
        weekday == WeekdayMatches(s, 1)
    IN  Present([k \in DOMAIN explicit |-> ResolveExplicit(explicit[k])])
        \o Present([k \in DOMAIN weekday |-> ResolveWeekday(weekday[k], today)])

DefaultTimeInfo0 ==
    [uncertainty |-> FALSE,
     alternative_times_suggested |-> FALSE,
     original_time |-> None,
     proposed_times |-> <<>>]

\* extract_time_info raising the flag for the first time that is found
extract_time_info_flags_any_time(s, today) ==
    LET found_times == found_times_0(s, today)
    IN  [DefaultTimeInfo0 EXCEPT
            !.uncertainty = Uncertain(s),
            !.alternative_times_suggested = Len(found_times) > 0,
            !.original_time =
                IF found_times = <<>> THEN None ELSE Some(IsoFormat(found_times[1])),
            !.proposed_times =
                [k \in 1..(Len(found_times) - 1) |-> IsoFormat(found_times[k + 1])]]

\* parser.py extract_time_info
extract_time_info_0(s, today) ==
    LET found_times == found_times_0(s, today)
    IN  [DefaultTimeInfo0 EXCEPT
            !.uncertainty = Uncertain(s),
            !.alternative_times_suggested = Len(found_times) > 1,
            !.original_time =
                IF found_times = <<>> THEN None ELSE Some(IsoFormat(found_times[1])),
            !.proposed_times =
                [k \in 1..(Len(found_times) - 1) |-> IsoFormat(found_times[k + 1])]]

(***************************************************************************)
(* parser.py: links, delegates, parse_email                                *)
(***************************************************************************)
\* tokens matched by the first and by the second of the link_patterns of
\* lines 161-164: the first asks for a character between "//" and the name
\* of the service, so that https://zoom.us/j/123 matches neither
MeetingLinkToks1 == {"https://us02web.zoom.us/j/123"}
MeetingLinkToks2 == {"https://example.com/join/9"}

_extract_meeting_link(s) ==
    IF FirstTokIn(s, MeetingLinkToks1) # None THEN FirstTokIn(s, MeetingLinkToks1)
    ELSE FirstTokIn(s, MeetingLinkToks2)

\* Words of the delegation_patterns (lines 182-187).  A pattern is searched
\* in the characters: its first word may end a token, its last word may
\* begin one.
EndsWithModal(t) == t \in {"could", "would"}
IsSomebody(t) == t \in {"you", "someone"}
BeginsWithTake(t) == t \in {"handle", "cover"}
EndsWithNeed(t) == t = "need"
EndsWithPlease(t) == t = "please"
BeginsWithThis(t) == t = "this"
EndsWithDelegate(t) == t = "delegate"
BeginsWithTo(t) == Lower(t) \in {"to", "to:", "this"}

\* the token after position p and the blanks that follow it
NextTok(s, p) == TokAt(s, SkipSpace(s, p + 1))
NextPos(s, p) == SkipSpace(s, p + 1)

\* re.search(delegation_patterns[k - 1], email_text, re.IGNORECASE)
DelegationPatternMatches(s, k) ==
    \E p \in DOMAIN s :
        CASE k = 1 ->
                /\ EndsWithModal(s[p])
                /\ IsSomebody(NextTok(s, p))
                /\ BeginsWithTake(NextTok(s, NextPos(s, p)))
          [] k = 2 ->
                /\ EndsWithNeed(s[p])
                /\ NextTok(s, p) = "someone"
                /\ NextTok(s, NextPos(s, p)) = "to"
                /\ BeginsWithTake(NextTok(s, NextPos(s, NextPos(s, p))))
          [] k = 3 ->
                /\ EndsWithPlease(s[p])
                /\ NextTok(s, p) \in {"handle", "cover"}
                /\ BeginsWithThis(NextTok(s, NextPos(s, p)))
          [] OTHER ->
                /\ EndsWithDelegate(s[p])
                /\ BeginsWithTo(NextTok(s, p))

\* confidence in hundredths: 0.25 for each pattern that matches
RECURSIVE DelegationConfidence(_, _)
DelegationConfidence(s, k) ==
    IF k > 4 THEN 0
    ELSE (IF DelegationPatternMatches(s, k) THEN 25 ELSE 0)
            + DelegationConfidence(s, k + 1)

\* re.findall(email_pattern, email_text)
FindAddresses(s) == SelectSeq(s, LAMBDA t : t \in Addresses)

NoDelegate == [delegate_email |-> None, delegate_name |-> None, confidence |-> 0]

\* _extract_delegate_info leaving the recipient among the candidates
delegate_info_keeps_recipient(s) ==
    LET emails_found == FindAddresses(s)
        confidence == DelegationConfidence(s, 1)
        headers == _extract_headers(s)
        potential_delegates ==
            SelectSeq(emails_found, LAMBDA e : Some(<<e>>) # headers["from"])
    IN  IF confidence > 0 /\ potential_delegates # <<>>
        THEN [NoDelegate EXCEPT
                !.delegate_email = Some(potential_delegates[1]),
                !.confidence = Min(confidence, 100)]
        ELSE NoDelegate

\* parser.py _extract_delegate_info
_extract_delegate_info(s) ==
    LET emails_found == FindAddresses(s)
        confidence == DelegationConfidence(s, 1)
        headers == _extract_headers(s)
        potential_delegates ==
            SelectSeq(emails_found,
                LAMBDA e : Some(<<e>>) # headers["from"] /\ Some(<<e>>) # headers["to"])
    IN  IF confidence > 0 /\ potential_delegates # <<>>
        THEN [NoDelegate EXCEPT
                !.delegate_email = Some(potential_delegates[1]),
                !.confidence = Min(confidence, 100)]
        ELSE NoDelegate

\* parser.py parse_email
parse_email_0(email_text, model, today) ==
    LET headers == _extract_headers(email_text)
        reply_types == SortedDesc(Cats(model, email_text))
        reply_type_scores == SelectSeq(reply_types, LAMBDA c : c.conf > ScoreThreshold)
        time_info == extract_time_info_0(email_text, today)
        primary_type == IF reply_types # <<>> THEN reply_types[1].label ELSE "unknown"
        proposed_time ==
            IF time_info.proposed_times # <<>>
            THEN Some(time_info.proposed_times[Len(time_info.proposed_times)])
            ELSE time_info.original_time
    IN  [from_email |-> headers["from"],
         to_email |-> headers["to"],
         subject |-> headers["subject"],
         reply_type |-> primary_type,
         reply_type_scores |-> reply_type_scores,
         proposed_time |-> proposed_time,
         meeting_link |-> _extract_meeting_link(email_text),
         delegate_to |-> _extract_delegate_info(email_text).delegate_email,
         additional_info |-> time_info,
         additional_notes |-> FormatNotes(time_info),
         processed_at |-> IsoFormat(today)]

\* parser_1.py: the loop of lines 379-394 from index k on
RECURSIVE ReconcileFrom(_, _)
ReconcileFrom(records, k) ==
    IF k > Len(records) THEN records
    ELSE ReconcileFrom(ReconcileAt(records, k), k + 1)

\* parser_1.py parse_email_thread as one call
parse_email_thread(thread_text, model, today) ==
    LET es == split_emails(thread_text)
        parsed == [k \in DOMAIN es |-> parse_email(ReversedAt(es, k), model, today)]
    IN  ReconcileFrom(parsed, 1)

(***************************************************************************)
(* Inputs                                                                  *)
(***************************************************************************)
John == "john@example.com"
Sarah == "sarah@example.com"
Meeting == "meeting@company.com"

EmailJohn ==
    <<"From:", John, NL, "To:", Meeting, NL, "Subject:", "Planning", NL, "hello">>
\* ends with a blank line
EmailSarah ==
    <<"From:", Sarah, NL, "To:", Meeting, NL, "Subject:", "Re:", "Planning", NL,
      "agenda", NL>>
\* as in test_parser.py: the From: line is indented
EmailSarahIndented == <<WS>> \o EmailSarah
WellFormedEmails == {EmailJohn, EmailSarah, EmailSarahIndented}

NoToEmail == <<"From:", John, NL, "Subject:", "Planning", NL, "hello">>
NamedFromEmail ==
    <<"From:", "John", John, NL, "To:", Meeting, NL, "Subject:", "Planning">>
LowerFromEmail ==
    <<"from:", Sarah, NL, "To:", Meeting, NL, "Subject:", "Planning">>
Junk == <<"hello", QuoteCode>>
QuotedFrom == <<"wrote", "From:", Sarah>>
\* To: and Subject: on lines 11 and 12
LateHeadersEmail ==
    <<"From:", John>> \o
    [k \in 1..(2 * (HeaderScanLines - 1)) |-> IF k % 2 = 1 THEN NL ELSE "hello"] \o
    <<NL, "To:", Meeting, NL, "Subject:", "Planning">>

Pieces ==
    WellFormedEmails \cup
    {NoToEmail, NamedFromEmail, LowerFromEmail, Junk, QuotedFrom, LateHeadersEmail}

MaxParts == 3

SeqsUpTo(S, n) == UNION {[1..m -> S] : m \in 0..n}

\* the pieces one after the other, each on lines of its own
Concat(ps) == join_lines(ps)

threadVars == <<now, classifier, pc, emails, parsed_emails, i, result>>
parseVars ==
    <<time_info0, time_info1, delegate_info0, record0, record1, thread1,
      scorer_in, most_probable>>
textVars == <<emails0, emails1, valid, hdrs0, hdrs1, parseVars>>
httpVars == <<request, response, handler_log>>

\* the reference time of the runs that resolve no time: Tuesday 10:30
Tuesday1030 == [day |-> 1, hour |-> 10, minute |-> 30]
\* Thursday 15:30: a time of day before 15:30 resolves to Friday
Thursday1530 == [day |-> 3, hour |-> 15, minute |-> 30]

ThreadIdle ==
    /\ now = Tuesday1030
    /\ classifier = "base"
    /\ pc = "idle"
    /\ emails = <<>>
    /\ parsed_emails = <<>>
    /\ i = 0
    /\ result = None

\* no request has reached the handler of main.py
HttpIdle ==
    /\ request = None
    /\ response = None
    /\ handler_log = <<>>

\* no email has been handed to a parser
ParseIdle ==
    /\ time_info0 = None
    /\ time_info1 = None
    /\ delegate_info0 = None
    /\ record0 = None
    /\ record1 = None
    /\ thread1 = None
    /\ scorer_in = None
    /\ most_probable = None

(***************************************************************************)
(* SpecSplit: the two splitters applied to a blob                          *)
(***************************************************************************)
InitSplit ==
    /\ HttpIdle
    /\ parts \in SeqsUpTo(Pieces, MaxParts)
    /\ text = Concat(parts)
    /\ emails0 = None
    /\ emails1 = None
    /\ valid = None
    /\ hdrs0 = None
    /\ hdrs1 = None
    /\ ParseIdle
    /\ ThreadIdle

CallSplitEmails0 ==
    /\ emails0 = None
    /\ emails0' = Some(_split_emails(text))
    /\ UNCHANGED <<httpVars, text, parts, emails1, valid, hdrs0, hdrs1, parseVars, threadVars>>

CallSplitEmails1 ==
    /\ emails1 = None
    /\ emails1' = Some(split_emails(text))
    /\ UNCHANGED <<httpVars, text, parts, emails0, valid, hdrs0, hdrs1, parseVars, threadVars>>

NextSplit == CallSplitEmails0 \/ CallSplitEmails1

SpecSplit == InitSplit /\ [][NextSplit]_vars

(***************************************************************************)
(* SpecHdr: the validity predicate and the header extractors applied to a  *)
(* chunk                                                                   *)
(***************************************************************************)
HeaderLines ==
    {<<"From:", John>>, <<"From:", Sarah>>, <<WS, "From:", Sarah>>,
     <<"To:", Meeting>>, <<"Subject:", "Planning">>, <<"Subject:">>,
     <<"wrote", "From:", Sarah>>}

MaxHeaderLines == 4

\* the lines before the header lines: none, or so many that the third line
\* after them is line 11
Paddings == {<<>>, [k \in 1..(HeaderScanLines - 2) |-> <<"hello">>]}

InitHdr ==
    /\ HttpIdle
    /\ \E pad \in Paddings :
        \E ls \in SeqsUpTo(HeaderLines, MaxHeaderLines) : parts = pad \o ls
    /\ text = join_lines(parts)
    /\ emails0 = None
    /\ emails1 = None
    /\ valid = None
    /\ hdrs0 = None
    /\ hdrs1 = None
    /\ ParseIdle
    /\ ThreadIdle

CallValidateEmailChunk ==
    /\ valid = None
    /\ valid' = Some(_validate_email_chunk(split_lines(text)))
    /\ UNCHANGED <<httpVars, text, parts, emails0, emails1, hdrs0, hdrs1, parseVars, threadVars>>

CallExtractHeaders0 ==
    /\ hdrs0 = None
    /\ hdrs0' = Some(_extract_headers(text))
    /\ UNCHANGED <<httpVars, text, parts, emails0, emails1, valid, hdrs1, parseVars, threadVars>>

CallExtractHeaders1 ==
    /\ hdrs1 = None
    /\ hdrs1' = Some(_extract_headers_1(text))
    /\ UNCHANGED <<httpVars, text, parts, emails0, emails1, valid, hdrs0, parseVars, threadVars>>

NextHdr == CallValidateEmailChunk \/ CallExtractHeaders0 \/ CallExtractHeaders1

SpecHdr == InitHdr /\ [][NextHdr]_vars

(***************************************************************************)
(* Spec: parse_email_thread of parser_1.py on a thread                     *)
(***************************************************************************)
HeaderBlock(sender) ==
    <<"From:", sender, NL, "To:", Meeting, NL, "Subject:", "Planning", NL>>

ProposeFriday == HeaderBlock(John) \o <<"Friday", "at", "2pm">>
FridayWorks == HeaderBlock(Sarah) \o <<"Friday", "works">>
ClockWorks == HeaderBlock(John) \o <<"2:00 PM", "works">>
Confirmed == HeaderBlock(Sarah) \o <<"confirmed">>
Hello == HeaderBlock(Sarah) \o <<"hello">>
FridayAtClock == HeaderBlock(Sarah) \o <<"Friday", "at", "2:00 PM">>
TwoTimes == HeaderBlock(John) \o <<"3pm", "is set", NL, "2pm", "works">>
ThreeTimes ==
    HeaderBlock(John) \o <<"11am", "works", "3pm", "is good", NL, "2pm", "works">>
Delegating ==
    HeaderBlock(John) \o <<"delegate", "to", Sarah, "https://zoom.us/j/123">>

ThreadEmails ==
    {ProposeFriday, FridayWorks, ClockWorks, Confirmed, Hello, FridayAtClock,
     TwoTimes, ThreeTimes, Delegating}

MaxEmails == 3

Init ==
    /\ HttpIdle
    /\ parts \in SeqsUpTo(ThreadEmails, MaxEmails)
    /\ text = Concat(parts)
    /\ emails0 = None
    /\ emails1 = None
    /\ valid = None
    /\ hdrs0 = None
    /\ hdrs1 = None
    /\ ParseIdle
    /\ now \in {Tuesday1030, Thursday1530}
    /\ classifier \in {"custom", "base"}
    /\ pc = "start"
    /\ emails = <<>>
    /\ parsed_emails = <<>>
    /\ i = 0
    /\ result = None

\* line 370
SplitThread ==
    /\ pc = "start"
    /\ emails' = split_emails(text)
    /\ pc' = IF split_emails(text) = <<>> THEN "reconcile" ELSE "parse"
    /\ i' = 1
    /\ UNCHANGED <<httpVars, text, parts, textVars, now, classifier, parsed_emails, result>>

\* one round of the loop of lines 374-376
ParseStep ==
    /\ pc = "parse"
    /\ parsed_emails' =
            Append(parsed_emails, parse_email(ReversedAt(emails, i), classifier, now))
    /\ i' = IF i = Len(emails) THEN 1 ELSE i + 1
    /\ pc' = IF i = Len(emails) THEN "reconcile" ELSE "parse"
    /\ UNCHANGED <<httpVars, text, parts, textVars, now, classifier, emails, result>>

\* one round of the loop of lines 379-394
ReconcileStep ==
    /\ pc = "reconcile"
    /\ i <= Len(parsed_emails)
    /\ parsed_emails' = ReconcileAt(parsed_emails, i)
    /\ i' = i + 1
    /\ UNCHANGED <<httpVars, text, parts, textVars, now, classifier, pc, emails, result>>

\* line 396
Return ==
    /\ pc = "reconcile"
    /\ i > Len(parsed_emails)
    /\ result' = Some(parsed_emails)
    /\ pc' = "done"
    /\ UNCHANGED <<httpVars, text, parts, textVars, now, classifier, emails, parsed_emails, i>>

Next == SplitThread \/ ParseStep \/ ReconcileStep \/ Return

Spec == Init /\ [][Next]_vars

(***************************************************************************)
(* SpecTime: the two extract_time_info applied to a text                   *)
(***************************************************************************)
\* "<weekday> at 3pm", with "next" before it or not
WeekdaySentence(has_next, target_weekday) ==
    (IF has_next THEN <<"next">> ELSE <<>>)
        \o <<WeekdayNames[target_weekday + 1], "at", "3pm">>

WeekdaySentences ==
    {WeekdaySentence(n, t) : n \in BOOLEAN, t \in 0..6}

ExplicitSentence == <<"November", "6th", "at", "11am">>
UnresolvableSentence == <<"Sunday", "at", "25pm">>
ConfirmingSentence == <<"2pm", "works">>

TimeSentences ==
    WeekdaySentences \cup
    {ExplicitSentence, UnresolvableSentence, ConfirmingSentence,
     <<"Fri", "2pm">>, <<"maybe">>, <<"Maybe">>, <<"possibly">>,
     <<"flexible">>, <<"not", "flexible">>}

MaxTimeSentences == 2

\* 10:30 on each day of the first week, and Thursday 15:30
TimeNows ==
    {[day |-> d, hour |-> 10, minute |-> 30] : d \in 0..6} \cup {Thursday1530}

InitTime ==
    /\ HttpIdle
    /\ parts \in SeqsUpTo(TimeSentences, MaxTimeSentences)
    /\ text = Concat(parts)
    /\ emails0 = None
    /\ emails1 = None
    /\ valid = None
    /\ hdrs0 = None
    /\ hdrs1 = None
    /\ ParseIdle
    /\ now \in TimeNows
    /\ classifier = "base"
    /\ pc = "idle"
    /\ emails = <<>>
    /\ parsed_emails = <<>>
    /\ i = 0
    /\ result = None

CallExtractTimeInfo0 ==
    /\ time_info0 = None
    /\ time_info0' = Some(extract_time_info_0(text, now))
    /\ UNCHANGED <<httpVars, text, parts, emails0, emails1, valid, hdrs0, hdrs1,
                   threadVars, time_info1, delegate_info0, record0, record1,
                   thread1, scorer_in, most_probable>>

CallExtractTimeInfo1 ==
    /\ time_info1 = None
    /\ time_info1' = Some(extract_time_info(text, now))
    /\ UNCHANGED <<httpVars, text, parts, emails0, emails1, valid, hdrs0, hdrs1,
                   threadVars, time_info0, delegate_info0, record0, record1,
                   thread1, scorer_in, most_probable>>

NextTime == CallExtractTimeInfo0 \/ CallExtractTimeInfo1

SpecTime == InitTime /\ [][NextTime]_vars

(***************************************************************************)
(* SpecScore: determine_most_probable_time applied to its arguments        *)
(***************************************************************************)
\* ISO strings of candidates: Monday 08:00, Tuesday 15:00, Friday 11:00,
\* Friday 14:00
ScoreTimes ==
    {IsoFormat([day |-> 0, hour |-> 8, minute |-> 0]),
     IsoFormat([day |-> 1, hour |-> 15, minute |-> 0]),
     IsoFormat([day |-> 4, hour |-> 11, minute |-> 0]),
     IsoFormat([day |-> 4, hour |-> 14, minute |-> 0])}

ScoreTexts ==
    {<<"hello">>, <<"8am">>, <<"2pm", "works">>,
     <<"November", "6th", "at", "11am", NL, "is good">>,
     <<"prefer", "3pm", NL, "ideal">>}

MaxProposed == 3

InitScore ==
    /\ HttpIdle
    /\ text \in ScoreTexts
    /\ parts = <<text>>
    /\ emails0 = None
    /\ emails1 = None
    /\ valid = None
    /\ hdrs0 = None
    /\ hdrs1 = None
    /\ time_info0 = None
    /\ time_info1 = None
    /\ delegate_info0 = None
    /\ record0 = None
    /\ record1 = None
    /\ thread1 = None
    /\ \E o \in {None} \cup {Some(t) : t \in ScoreTimes} :
        \E ps \in SeqsUpTo(ScoreTimes, MaxProposed) :
            scorer_in = [original_time |-> o, proposed_times |-> ps]
    /\ most_probable = None
    /\ ThreadIdle

\* the returned value (None or a time) is kept as a present value
CallDetermineMostProbableTime ==
    /\ most_probable = None
    /\ most_probable' =
            Some(determine_most_probable_time(
                    scorer_in.original_time, scorer_in.proposed_times, text))
    /\ UNCHANGED <<httpVars, text, parts, emails0, emails1, valid, hdrs0, hdrs1,
                   threadVars, time_info0, time_info1, delegate_info0, record0,
                   record1, thread1, scorer_in>>

NextScore == CallDetermineMostProbableTime

SpecScore == InitScore /\ [][NextScore]_vars

(***************************************************************************)
(* SpecParse: a text handed to parse_email of parser.py (as main.py does), *)
(* to its _extract_delegate_info, to parse_email of parser_1.py and to its *)
(* parse_email_thread                                                      *)
(***************************************************************************)
BodySentences ==
    {<<"Friday", "at", "2pm">>,
     <<"Friday", "at", "2pm", "Monday", "at", "8am">>,
     <<"next", "Monday", "at", "3pm">>,
     ExplicitSentence,
     ExplicitSentence \o <<"works">>,
     <<"2:00 PM", "works">>,
     <<"3pm", "is good", "11am", "works">>,
     <<"delegate", "to", John>>,
     <<"delegate", "to", Sarah>>,
     <<"please", "handle", "this", Meeting>>,
     <<"could", "you", "cover">>,
     <<"need", "someone", "to", "cover", Sarah>>,
     <<"https://us02web.zoom.us/j/123">>}

MaxBodySentences == 2

\* the emails that may come before the email of John in the text
LeadingEmails == {<<>>, Confirmed \o <<NL>>}

InitParse ==
    /\ HttpIdle
    /\ \E lead \in LeadingEmails :
        \E body \in SeqsUpTo(BodySentences, MaxBodySentences) :
            /\ parts = body
            /\ text = lead \o HeaderBlock(John) \o Concat(body)
    /\ emails0 = None
    /\ emails1 = None
    /\ valid = None
    /\ hdrs0 = None
    /\ hdrs1 = None
    /\ ParseIdle
    /\ now = Thursday1530
    /\ classifier \in {"custom", "base"}
    /\ pc = "idle"
    /\ emails = <<>>
    /\ parsed_emails = <<>>
    /\ i = 0
    /\ result = None

CallParseEmail0 ==
    /\ record0 = None
    /\ record0' = Some(parse_email_0(text, classifier, now))
    /\ UNCHANGED <<httpVars, text, parts, emails0, emails1, valid, hdrs0, hdrs1,
                   threadVars, time_info0, time_info1, delegate_info0, record1,
                   thread1, scorer_in, most_probable>>

CallExtractDelegateInfo ==
    /\ delegate_info0 = None
    /\ delegate_info0' = Some(_extract_delegate_info(text))
    /\ UNCHANGED <<httpVars, text, parts, emails0, emails1, valid, hdrs0, hdrs1,
                   threadVars, time_info0, time_info1, record0, record1,
                   thread1, scorer_in, most_probable>>

CallParseEmail1 ==
    /\ record1 = None
    /\ record1' = Some(parse_email(text, classifier, now))
    /\ UNCHANGED <<httpVars, text, parts, emails0, emails1, valid, hdrs0, hdrs1,
                   threadVars, time_info0, time_info1, delegate_info0, record0,
                   thread1, scorer_in, most_probable>>

CallParseEmailThread ==
    /\ thread1 = None
    /\ thread1' = Some(parse_email_thread(text, classifier, now))
    /\ UNCHANGED <<httpVars, text, parts, emails0, emails1, valid, hdrs0, hdrs1,
                   threadVars, time_info0, time_info1, delegate_info0, record0,
                   record1, scorer_in, most_probable>>

NextParse ==
    \/ CallParseEmail0
    \/ CallExtractDelegateInfo
    \/ CallParseEmail1
    \/ CallParseEmailThread

SpecParse == InitParse /\ [][NextParse]_vars

(***************************************************************************)
(* main.py: the POST /parse handler (lines 51-93).  A request is its       *)
(* content type, the kind of its body and the email_text the body holds    *)
(* (None when the body holds none).  HTTPException is a subclass of        *)
(* Exception.                                                              *)
(***************************************************************************)
\* lines 59-72: what the handler reads from the request, or what it raises
ReadEmailText(req) ==
    IF req.content_type = "application/json"
    THEN IF req.kind = "malformed"
         THEN [raised |-> Some([type |-> "HTTPException", status_code |-> 400]),
               email_text |-> None]
         ELSE IF req.kind = "array"
         THEN [raised |-> Some([type |-> "AttributeError", status_code |-> 0]),
               email_text |-> None]
         ELSE [raised |-> None, email_text |-> req.email_text]
    ELSE IF req.content_type = "application/x-www-form-urlencoded"
    THEN [raised |-> None, email_text |-> req.email_text]
    ELSE IF req.kind = "undecodable"
    THEN [raised |-> None, email_text |-> None]
    ELSE [raised |-> None, email_text |-> req.email_text]

\* lines 52-93: the response and the calls made; parse_raises and save_raises
\* say whether email_parser.parse_email and Database.save_responses raise
post_parse(req, model, today, parse_raises, save_raises) ==
    LET read == ReadEmailText(req)
        Caught(e, calls) ==
            [response |-> [status_code |-> 500, content |-> [error |-> e]],
             log |-> calls]
    IN  IF read.raised # None THEN Caught(read.raised[1], <<>>)
        ELSE IF read.email_text = None \/ read.email_text = Some(<<>>)
        THEN Caught([type |-> "HTTPException", status_code |-> 400], <<>>)
        ELSE IF parse_raises
        THEN Caught([type |-> "Exception", status_code |-> 0], <<"parse">>)
        ELSE IF save_raises
        THEN Caught([type |-> "Exception", status_code |-> 0], <<"parse", "save">>)
        ELSE [response |->
                [status_code |-> 200,
                 content |->
                    [status |-> "success", count |-> 1,
                     data |-> <<parse_email_0(read.email_text[1], model, today)>>]],
              log |-> <<"parse", "save">>]

(***************************************************************************)
(* SpecHttp: a request handed to POST /parse                               *)
(***************************************************************************)
MaxPostedEmails == 2

\* the requests that carry the text t (empty when t is), and those that
\* carry no email_text
RequestsFor(t) ==
    {[content_type |-> "application/json", kind |-> "object", email_text |-> Some(t)],
     [content_type |-> "application/x-www-form-urlencoded", kind |-> "form",
      email_text |-> Some(t)],
     [content_type |-> "text/plain", kind |-> "text", email_text |-> Some(t)]}
    \cup (IF t # <<>> THEN {}
          ELSE {[content_type |-> "application/json", kind |-> k, email_text |-> None] :
                    k \in {"malformed", "array", "object"}}
               \cup {[content_type |-> "application/x-www-form-urlencoded",
                      kind |-> "form", email_text |-> None],
                     [content_type |-> "text/plain", kind |-> "undecodable",
                      email_text |-> None]})

InitHttp ==
    /\ parts \in SeqsUpTo(ThreadEmails, MaxPostedEmails)
    /\ text = Concat(parts)
    /\ \E req \in RequestsFor(text) : request = Some(req)
    /\ response = None
    /\ handler_log = <<>>
    /\ emails0 = None
    /\ emails1 = None
    /\ valid = None
    /\ hdrs0 = None
    /\ hdrs1 = None
    /\ ParseIdle
    /\ now = Thursday1530
    /\ classifier \in {"custom", "base"}
    /\ pc = "idle"
    /\ emails = <<>>
    /\ parsed_emails = <<>>
    /\ i = 0
    /\ result = None

PostParse ==
    /\ response = None
    /\ \E parse_raises \in BOOLEAN, save_raises \in BOOLEAN :
        LET answer == post_parse(request[1], classifier, now, parse_raises, save_raises)
        IN  /\ response' = Some(answer.response)
            /\ handler_log' = answer.log
    /\ UNCHANGED <<request, text, parts, textVars, threadVars>>

NextHttp == PostParse

SpecHttp == InitHttp /\ [][NextHttp]_vars

(***************************************************************************)
(* Properties of parse_email_thread (Spec)                                 *)
(***************************************************************************)
\* the record parse_email_thread returned for the email with this text
RecordsOf(returned, email_text) ==
    {k \in DOMAIN returned : returned[k]._raw_text = strip(email_text)}

\* what reconciliation found before it ran: the records of the parse loop
ExtractedRecord(k) == parse_email(ReversedAt(emails, k), classifier, now)

\* record k had no time of its own and holds one now
FilledIn(k) ==
    /\ k \in DOMAIN parsed_emails
    /\ k <= Len(emails)
    /\ ExtractedRecord(k).proposed_time = None
    /\ parsed_emails[k].proposed_time # None

\* C1: in a thread of two emails where the first email of the text proposes
\* "Friday at 2pm" and the second only says "Friday works", the record
\* returned for the second email holds a proposed_time, the one of the record
\* returned for the first email.
C1_ConfirmationPropagates ==
    (pc = "done" /\ parts = <<ProposeFriday, FridayWorks>>) =>
        \A a \in RecordsOf(result[1], ProposeFriday) :
            \A b \in RecordsOf(result[1], FridayWorks) :
                /\ result[1][b].proposed_time # None
                /\ result[1][b].proposed_time = result[1][a].proposed_time

\* C2: a round of the reconciliation loop at a record without proposed_time
\* whose predecessor has one sets the record's proposed_time and
\* additional_info.original_time to the predecessor's proposed_time when the
\* record's text matches a confirmation pattern built from that time, and
\* leaves its proposed_time absent when none matches.
C2_ReconciliationStepRule ==
    [][(/\ pc = "reconcile"
        /\ i >= 2
        /\ i <= Len(parsed_emails)
        /\ parsed_emails[i].proposed_time = None
        /\ parsed_emails[i - 1].proposed_time # None
        /\ i' = i + 1)
       => LET prev_time == parsed_emails[i - 1].proposed_time
          IN  IF ConfirmationPatternMatches(ParseIso(prev_time[1]),
                                            parsed_emails[i]._raw_text)
              THEN /\ parsed_emails'[i].proposed_time = prev_time
                   /\ parsed_emails'[i].additional_info.original_time = prev_time
              ELSE parsed_emails'[i].proposed_time = None]_vars

\* C2 witness: the loop has passed a record it filled in from its predecessor
\* and a later record, after a record with a time, that it left without one.
C2_Witness ==
    /\ pc = "done"
    /\ \E k \in DOMAIN parsed_emails :
        /\ k >= 2
        /\ FilledIn(k)
        /\ parsed_emails[k].proposed_time = parsed_emails[k - 1].proposed_time
        /\ parsed_emails[k].additional_info.original_time
                = parsed_emails[k - 1].proposed_time
    /\ \E k \in DOMAIN parsed_emails :
        /\ k >= 2
        /\ parsed_emails[k].proposed_time = None
        /\ parsed_emails[k - 1].proposed_time # None

\* C3: parse_email_thread returns the records in the order of the emails of
\* the input text: the k-th returned record is the record of the k-th email.
C3_ReturnedInRequestOrder ==
    pc = "done" =>
        /\ Len(result[1]) = Len(emails)
        /\ \A k \in DOMAIN result[1] : result[1][k]._raw_text = emails[k]

\* C4: a round of the reconciliation loop at a record whose predecessor has no
\* proposed_time leaves the record as it is, whatever the earlier records hold.
C4_SingleHopLookback ==
    [][(/\ pc = "reconcile"
        /\ i >= 2
        /\ i <= Len(parsed_emails)
        /\ parsed_emails[i - 1].proposed_time = None
        /\ i' = i + 1)
       => parsed_emails'[i] = parsed_emails[i]]_vars

\* C4 witness: the loop has passed record k, whose text confirms the time of
\* record k - 2, while record k - 1 had no time: record k still has none.
C4_Witness ==
    /\ pc = "reconcile"
    /\ \E k \in DOMAIN parsed_emails :
        /\ k >= 3
        /\ k < i
        /\ parsed_emails[k - 2].proposed_time # None
        /\ parsed_emails[k - 1].proposed_time = None
        /\ ConfirmationPatternMatches(
                ParseIso(parsed_emails[k - 2].proposed_time[1]),
                parsed_emails[k]._raw_text)
        /\ parsed_emails[k].proposed_time = None

\* the proposed_time the parse loop produced for each record
ExtractedTimes == [k \in DOMAIN parsed_emails |-> ExtractedRecord(k).proposed_time]

\* C23: when the pass is over, a record that reconciliation filled in holds
\* the proposed_time the parse loop produced for the nearest record before it
\* in the walk that had one, and every record between the two was filled in
\* by reconciliation as well.
C23_MultiHopPropagation ==
    pc = "done" =>
        LET extracted == ExtractedTimes
        IN  \A k \in DOMAIN parsed_emails :
                (extracted[k] = None /\ parsed_emails[k].proposed_time # None) =>
                    \E j \in 1..(k - 1) :
                        /\ extracted[j] # None
                        /\ parsed_emails[k].proposed_time = extracted[j]
                        /\ \A m \in (j + 1)..(k - 1) :
                                /\ extracted[m] = None
                                /\ parsed_emails[m].proposed_time # None

\* C23 witness: the pass is over and a time has travelled two records: the
\* record after a record that was filled in was filled in too.
C23_Witness ==
    /\ pc = "done"
    /\ \E k \in DOMAIN parsed_emails :
        /\ k >= 3
        /\ ExtractedTimes[k - 2] # None
        /\ ExtractedTimes[k - 1] = None
        /\ ExtractedTimes[k] = None
        /\ parsed_emails[k - 1].proposed_time = ExtractedTimes[k - 2]
        /\ parsed_emails[k].proposed_time = ExtractedTimes[k - 2]

\* record r with its proposed_time and additional_info.original_time taken
\* from record q
WithTimesOf(r, q) ==
    [r EXCEPT !.proposed_time = q.proposed_time,
              !.additional_info.original_time = q.additional_info.original_time]

\* C5: during and after the reconciliation pass there are as many records as
\* emails, in the order of the parse loop; a record that had a proposed_time
\* before the pass is what it was, and every record is what it was in all
\* fields but proposed_time and additional_info.original_time.
C5_ReconciliationFrame ==
    pc \in {"reconcile", "done"} =>
        /\ Len(parsed_emails) = Len(emails)
        /\ \A k \in DOMAIN parsed_emails :
            LET extracted == ExtractedRecord(k)
            IN  /\ extracted.proposed_time # None => parsed_emails[k] = extracted
                /\ WithTimesOf(parsed_emails[k], extracted) = extracted

\* C5 witness: the pass is over, it filled in one record and there is a
\* record that had a time of its own.
C5_Witness ==
    /\ pc = "done"
    /\ \E k \in DOMAIN parsed_emails : FilledIn(k)
    /\ \E k \in DOMAIN parsed_emails : ExtractedRecord(k).proposed_time # None

(***************************************************************************)
(* Properties of the time extractors (SpecTime)                            *)
(***************************************************************************)
\* original_time and proposed_times as one list
Candidates(time_info) ==
    (IF time_info.original_time = None THEN <<>> ELSE time_info.original_time)
        \o time_info.proposed_times

\* the day offset the rule of the spec gives
RuleOffset(has_next, target_weekday, current_weekday) ==
    LET raw == target_weekday - current_weekday
    IN  IF has_next THEN raw + 7
        ELSE IF raw <= 0 THEN raw + 7 ELSE raw

NoExplicitDate == \A k \in DOMAIN parts : parts[k] # ExplicitSentence

\* C11: for a text that starts with "<weekday> at 3pm" or "next <weekday> at
\* 3pm" (and holds no month/day expression), parser.py extract_time_info
\* resolves it to the day raw + 7 days after today when "next" is present
\* and otherwise to raw + 7 when raw <= 0 and raw when raw > 0, with
\* raw = target weekday - today's weekday; that day is the target weekday and
\* lies after today.
C11_RelativeWeekdayOffset ==
    (time_info0 # None /\ parts # <<>> /\ NoExplicitDate) =>
        \A n \in BOOLEAN, t \in 0..6 :
            parts[1] = WeekdaySentence(n, t) =>
                /\ time_info0[1].original_time # None
                /\ LET dt == ParseIso(time_info0[1].original_time[1])
                   IN  /\ dt.day - now.day = RuleOffset(n, t, now.day % 7)
                       /\ dt.day % 7 = t
                       /\ dt.day > now.day
                       /\ dt.hour = 15 /\ dt.minute = 0

\* C11 witness: "next" before a weekday that is still to come this week was
\* resolved to that weekday of the week after.
C11_Witness ==
    /\ time_info0 # None
    /\ \E t \in 0..6 :
        /\ parts = <<WeekdaySentence(TRUE, t)>>
        /\ t > now.day % 7
        /\ time_info0[1].original_time # None
        /\ ParseIso(time_info0[1].original_time[1]).day = now.day + (t - (now.day % 7)) + 7

\* C12: with now on a Wednesday, both extract_time_info resolve "next Monday
\* at 3pm" to 15:00 of the day 8 days after now.
C12_NextMondayEightDays ==
    (now.day % 7 = 2 /\ text = WeekdaySentence(TRUE, 0)) =>
        LET expected == Some(IsoFormat([day |-> now.day + 8, hour |-> 15, minute |-> 0]))
        IN  /\ time_info0 # None => time_info0[1].original_time = expected
            /\ time_info1 # None => time_info1[1].original_time = expected

\* the month/day and weekday matches of a text, each with the position of
\* its start and the time it resolves to
PositionedTimes(s, today) ==
    LET explicit == ExplicitMatches(s, 1)
        weekday == WeekdayMatches(s, 1)
    IN  {[start |-> explicit[k].start, time |-> ResolveExplicit(explicit[k])] :
            k \in DOMAIN explicit}
        \cup {[start |-> weekday[k].start, time |-> ResolveWeekday(weekday[k], today)] :
                k \in DOMAIN weekday}

\* the candidates follow each other as the starts of their matches do
RECURSIVE InPositionOrder(_, _)
InPositionOrder(cands, positioned) ==
    LET resolved == {m \in positioned : m.time # None}
    IN  IF resolved = {} THEN cands = <<>>
        ELSE LET first == CHOOSE m \in resolved : \A o \in resolved : m.start <= o.start
             IN  /\ cands # <<>>
                 /\ cands[1] = IsoFormat(first.time[1])
                 /\ InPositionOrder(Tail(cands), resolved \ {first})

\* C13: the candidates parser.py extract_time_info reports (original_time,
\* then proposed_times) are the resolved matches of the month/day and the
\* weekday expressions in the order of their start positions in the text.
C13_CandidatesInTextOrder ==
    time_info0 # None =>
        InPositionOrder(Candidates(time_info0[1]), PositionedTimes(text, now))

\* C15: a matched expression whose resolution gives nothing or raises takes
\* no other candidate with it: parser.py reports every month/day and weekday
\* match that resolves and the uncertainty flag, and parser_1.py reports
\* every "<clock> works" match that resolves.
C15_FailureIsolation ==
    /\ time_info0 # None =>
        /\ Len(Candidates(time_info0[1]))
                = Cardinality({m \in PositionedTimes(text, now) : m.time # None})
        /\ time_info0[1].uncertainty = Uncertain(text)
    /\ time_info1 # None =>
        \A k \in DOMAIN parts :
            parts[k] = ConfirmingSentence =>
                \E j \in DOMAIN Candidates(time_info1[1]) :
                    ParseIso(Candidates(time_info1[1])[j]).hour = 14

\* the phrases of the uncertainty set that the texts hold, in any letter case
HoldsUncertaintyPhrase(s) ==
    \E p \in DOMAIN s :
        \/ s[p] \in {"maybe", "Maybe", "possibly", "possible", "available"}
        \/ s[p] = "flexible" /\ TokAt(s, p - 1) # "not"

\* the time information the calls made so far have returned
ProducedTimeInfo ==
    (IF time_info0 = None THEN {} ELSE {time_info0[1]})
        \cup (IF time_info1 = None THEN {} ELSE {time_info1[1]})

\* C21: in what either extract_time_info returns, uncertainty is true when
\* the text holds a phrase of the uncertainty set in any letter case
\* ("possibly" included), whether or not a time expression of the text
\* matched or resolved, and false when the text is "not flexible".
C21_UncertaintyDetection ==
    \A time_info \in ProducedTimeInfo :
        /\ HoldsUncertaintyPhrase(text) => time_info.uncertainty
        /\ text = <<"not", "flexible">> => ~time_info.uncertainty

(***************************************************************************)
(* Properties of determine_most_probable_time (SpecScore)                  *)
(***************************************************************************)
\* C16: determine_most_probable_time returns None when there is neither an
\* original time nor a proposed time, the original time when there is no
\* proposed time, and the proposed time when there is exactly one; what it
\* returns is None, the original time or one of the proposed times.
C16_ScorerBaseCases ==
    most_probable # None =>
        LET returned == most_probable[1]
            original == scorer_in.original_time
            proposed == scorer_in.proposed_times
        IN  /\ (original = None /\ proposed = <<>>) => returned = None
            /\ (original # None /\ proposed = <<>>) => returned = original
            /\ Len(proposed) = 1 => returned = Some(proposed[1])
            /\ \/ returned = None
               \/ returned = original
               \/ \E k \in DOMAIN proposed : returned = Some(proposed[k])

\* C16 witness: a call with an original time and one proposed time that
\* differs from it has returned the proposed time.
C16_Witness ==
    /\ most_probable # None
    /\ Len(scorer_in.proposed_times) = 1
    /\ scorer_in.original_time # None
    /\ scorer_in.original_time # Some(scorer_in.proposed_times[1])
    /\ most_probable[1] = Some(scorer_in.proposed_times[1])

\* the score of the k-th proposed time of the call
ScoreOf(k) ==
    TimeScore(ParseIso(scorer_in.proposed_times[k]),
              IF scorer_in.original_time = None THEN None
              ELSE Some(ParseIso(scorer_in.original_time[1])),
              text)

\* C17: with two or more proposed times the returned time is a proposed time
\* whose score no other exceeds, and every proposed time before its first
\* occurrence has a smaller score.
C17_ScorerSelection ==
    (most_probable # None /\ Len(scorer_in.proposed_times) >= 2) =>
        LET proposed == scorer_in.proposed_times
            at == {k \in DOMAIN proposed : most_probable[1] = Some(proposed[k])}
        IN  /\ at # {}
            /\ LET first == CHOOSE k \in at : \A j \in at : k <= j
               IN  /\ \A j \in DOMAIN proposed : ~FloatLess(ScoreOf(first), ScoreOf(j))
                   /\ \A j \in 1..(first - 1) : FloatLess(ScoreOf(j), ScoreOf(first))

\* C17 witness: two different proposed times have the same score, the highest
\* of the call, and the first of them was returned.
C17_Witness ==
    /\ most_probable # None
    /\ Len(scorer_in.proposed_times) >= 2
    /\ \E j, k \in DOMAIN scorer_in.proposed_times :
        /\ j < k
        /\ scorer_in.proposed_times[j] # scorer_in.proposed_times[k]
        /\ ScoreOf(j) = ScoreOf(k)
        /\ \A m \in DOMAIN scorer_in.proposed_times : ~FloatLess(ScoreOf(j), ScoreOf(m))
        /\ most_probable[1] = Some(scorer_in.proposed_times[j])

(***************************************************************************)
(* Properties of the records (SpecParse)                                   *)
(***************************************************************************)
\* the records the calls made so far have returned
ProducedRecords ==
    (IF record0 = None THEN {} ELSE {record0[1]})
        \cup (IF record1 = None THEN {} ELSE {record1[1]})
        \cup (IF thread1 = None THEN {}
              ELSE {thread1[1][k] : k \in DOMAIN thread1[1]})

\* C14: in every record parse_email returns (either variant) and in every
\* record parse_email_thread returns, alternative_times_suggested is true
\* exactly when proposed_times is not empty, and proposed_times is not empty
\* only when original_time is present.
C14_AlternativeFlagConsistent ==
    \A r \in ProducedRecords :
        /\ r.additional_info.alternative_times_suggested
                <=> r.additional_info.proposed_times # <<>>
        /\ r.additional_info.proposed_times # <<>>
                => r.additional_info.original_time # None

\* C14 witness: both parse_email have found two times in the text, and
\* parse_email_thread has returned a record whose time reconciliation
\* filled in.
C14_Witness ==
    /\ record0 # None
    /\ Len(record0[1].additional_info.proposed_times) = 1
    /\ record1 # None
    /\ Len(record1[1].additional_info.proposed_times) = 1
    /\ thread1 # None
    /\ \E k \in DOMAIN thread1[1] :
        /\ thread1[1][k].proposed_time # None
        /\ parse_email(thread1[1][k]._raw_text, classifier, now).proposed_time = None

\* C22: the proposed_time of the record of either parse_email is what
\* determine_most_probable_time returns for the original_time and the
\* proposed_times of the record and the text.
C22_ProposedTimeIsScorerChoice ==
    \A r \in (IF record0 = None THEN {} ELSE {record0[1]})
                \cup (IF record1 = None THEN {} ELSE {record1[1]}) :
        r.proposed_time
            = determine_most_probable_time(r.additional_info.original_time,
                                           r.additional_info.proposed_times, text)

\* the "Original time was" notes of record r
OriginalTimeNotes(r) ==
    IF r.additional_notes = None THEN {}
    ELSE {r.additional_notes[1][k].arg :
            k \in {j \in DOMAIN r.additional_notes[1] :
                        r.additional_notes[1][j].note = "Original time was"}}

\* C24: in every record parse_email (either variant) and parse_email_thread
\* return, additional_notes holds an "Original time was <t>" line exactly
\* when additional_info.original_time is present, <t> being that time, and
\* additional_notes is None rather than empty when there is no note.
C24_NotesMatchTimeInfo ==
    \A r \in ProducedRecords :
        /\ r.additional_notes # Some(<<>>)
        /\ OriginalTimeNotes(r)
                = (IF r.additional_info.original_time = None THEN {}
                   ELSE {r.additional_info.original_time})

\* C18: the delegate_to of a record, when present, is neither the record's
\* from_email nor its to_email.
C18_DelegateNotSenderOrRecipient ==
    \A r \in ProducedRecords :
        r.delegate_to # None =>
            /\ r.from_email # Some(<<r.delegate_to[1]>>)
            /\ r.to_email # Some(<<r.delegate_to[1]>>)

\* the number of delegation patterns of parser.py that match the text
CueCount(s) == Cardinality({k \in 1..4 : DelegationPatternMatches(s, k)})

\* the addresses of the text that are neither header value, in text order
OtherAddresses(s) ==
    SelectSeq(s, LAMBDA t :
        /\ t \in Addresses
        /\ Some(<<t>>) # _extract_headers(s)["from"]
        /\ Some(<<t>>) # _extract_headers(s)["to"])

\* C19: parser.py _extract_delegate_info reports a delegate_email exactly
\* when a cue pattern matches and the text holds an address that differs from
\* both header values; it is then the first such address and the confidence
\* is 0.25 for each pattern that matches, at most 1.0; otherwise there is no
\* delegate_email and the confidence is 0.
C19_DelegateConfidenceRule ==
    delegate_info0 # None =>
        LET accumulator == Min(25 * CueCount(text), 100)
            others == OtherAddresses(text)
        IN  IF accumulator > 0 /\ others # <<>>
            THEN /\ delegate_info0[1].delegate_email = Some(others[1])
                 /\ delegate_info0[1].confidence = accumulator
            ELSE /\ delegate_info0[1].delegate_email = None
                 /\ delegate_info0[1].confidence = 0

\* C19 witness: two cue patterns match, the first address of the body is the
\* recipient's, and the address after it was reported with confidence 0.5.
C19_Witness ==
    /\ delegate_info0 # None
    /\ CueCount(text) = 2
    /\ parts # <<>>
    /\ parts[1] = <<"please", "handle", "this", Meeting>>
    /\ delegate_info0[1].delegate_email = Some(Sarah)
    /\ delegate_info0[1].confidence = 50

\* the labels of the classifier's mapping for the text of record r
CatsOf(s) == Cats(classifier, s)

\* C20: in the records of both parse_email, reply_type_scores holds exactly
\* the labels whose confidence is above 0.3, and reply_type is a label of
\* the highest confidence of the mapping, or "unknown" when the mapping is
\* empty.
C20_ClassificationResult ==
    \A r \in (IF record0 = None THEN {} ELSE {record0[1]})
                \cup (IF record1 = None THEN {} ELSE {record1[1]}) :
        LET cats == CatsOf(text)
        IN  /\ Labels(r.reply_type_scores)
                    = {cats[k].label : k \in {j \in DOMAIN cats : cats[j].conf > 30}}
            /\ \A k \in DOMAIN r.reply_type_scores :
                    \E j \in DOMAIN cats : cats[j] = r.reply_type_scores[k]
            /\ IF cats = <<>> THEN r.reply_type = "unknown"
               ELSE \E k \in DOMAIN cats :
                        /\ r.reply_type = cats[k].label
                        /\ \A j \in DOMAIN cats : cats[j].conf <= cats[k].conf

(***************************************************************************)
(* Properties of the POST /parse handler (SpecHttp)                        *)
(***************************************************************************)
\* the request holds no email_text, an empty one, or JSON that does not parse
MissingOrMalformed(req) ==
    \/ req.kind \in {"malformed", "undecodable"}
    \/ req.kind # "array" /\ req.email_text \in {None, Some(<<>>)}

\* C25: a request whose email_text is missing or empty, or whose JSON is
\* malformed, is answered with status 400 and neither parsed nor saved, and
\* a response with status 500 follows a call of the parser or of the save.
C25_BadRequestIs400 ==
    response # None =>
        /\ MissingOrMalformed(request[1]) =>
                /\ response[1].status_code = 400
                /\ handler_log = <<>>
        /\ response[1].status_code = 500 => handler_log # <<>>

(***************************************************************************)
(* Properties of the splitters (SpecSplit)                                 *)
(***************************************************************************)
ChunkValid(chunk) == _validate_email_chunk(split_lines(chunk))

\* the chunks are the emails, one for one and in order
SameEmails(chunks, es) ==
    /\ Len(chunks) = Len(es)
    /\ \A k \in DOMAIN chunks : strip(chunks[k]) = strip(es[k])

ThreeWellFormed ==
    Len(parts) = 3 /\ \A k \in DOMAIN parts : parts[k] \in WellFormedEmails

\* C6: for a blob of three emails that each start with a From: <address>
\* line followed by a To: and a Subject: line, each splitter returns three
\* chunks, the three emails in their order, each passing the validity
\* predicate; the From: lines of later emails may be indented.
C6_ThreeEmailsThreeChunks ==
    ThreeWellFormed =>
        /\ emails0 # None =>
            /\ SameEmails(emails0[1], parts)
            /\ \A k \in DOMAIN emails0[1] : ChunkValid(emails0[1][k])
        /\ emails1 # None =>
            /\ SameEmails(emails1[1], parts)
            /\ \A k \in DOMAIN emails1[1] : ChunkValid(emails1[1][k])

\* C7: every chunk either splitter returns passes the validity predicate.
C7_EveryChunkValid ==
    /\ emails0 # None => \A k \in DOMAIN emails0[1] : ChunkValid(emails0[1][k])
    /\ emails1 # None => \A k \in DOMAIN emails1[1] : ChunkValid(emails1[1][k])

\* C8: the two splitters return the same number of chunks, the same emails
\* in the same order.
C8_SplittersAgree ==
    (emails0 # None /\ emails1 # None) => SameEmails(emails0[1], emails1[1])

(***************************************************************************)
(* Properties of the header functions (SpecHdr)                            *)
(***************************************************************************)
\* the lines a header scan looks at, stripped
ScannedLines(s) ==
    LET first == FirstLines(split_lines(s))
    IN  [k \in DOMAIN first |-> strip(first[k])]

\* the value of the first of the scanned lines that carries the prefix
FirstHeaderValue(s, prefix) ==
    LET lines == ScannedLines(s)
        carrying == {k \in DOMAIN lines : lower_startswith(lines[k], prefix)}
    IN  IF carrying = {} THEN None
        ELSE Some(HeaderValue(lines[CHOOSE k \in carrying :
                                        \A j \in carrying : k <= j]))

\* C9: _extract_headers returns for From, To and Subject the value of the
\* first line among the first 10 that carries the prefix: a later line with
\* the same prefix never replaces an earlier one.
C9_FirstOccurrenceWins ==
    hdrs0 # None =>
        /\ hdrs0[1]["from"] = FirstHeaderValue(text, "from:")
        /\ hdrs0[1]["to"] = FirstHeaderValue(text, "to:")
        /\ hdrs0[1]["subject"] = FirstHeaderValue(text, "subject:")

\* C10: _validate_email_chunk is true of a chunk exactly when
\* _extract_headers finds From, To and Subject in it (none of them None).
C10_ValidIffHeadersFound ==
    (valid # None /\ hdrs0 # None) =>
        (valid[1] <=> \A h \in {"from", "to", "subject"} : hdrs0[1][h] # None)

====
